---- MODULE Spec2Model ----
(***************************************************************************)
(* Adversarial training controllers of edge_informed_SISR/src/models.py:   *)
(* BaseModel (checkpoint load/save) and its three subclasses EdgeModel,    *)
(* SRModel and GradientModel (forward / process / backward).               *)
(*                                                                         *)
(* Abstractions.  The generator, the discriminator and the loss primitives *)
(* are imported from modules outside models.py; their numeric results are  *)
(* drawn from small sets.  A network's parameters are one integer per      *)
(* network; an optimizer step yields the next integer.  A tensor carries   *)
(* the set of parameter groups its autograd graph reaches ("leaves").      *)
(* Loss weights are in tenths, raw loss values in hundredths, weighted     *)
(* loss values in thousandths (0.1 * 2.0 = 0.2 is 1 * 200 = 200).          *)
(***************************************************************************)
EXTENDS Integers, Sequences, FiniteSets, TLC

VARIABLES
    active,      \* the controller the training driver operates
    MODE,        \* config.MODE (1 train, 2 test, 3 eval)
    SCALE,       \* config.SCALE
    iteration,   \* self.iteration
    genP,        \* generator parameters (self.generator.state_dict())
    disP,        \* discriminator parameters
    genGrad,     \* .grad accumulated on the generator parameters
    disGrad,     \* .grad accumulated on the discriminator parameters
    genOpt,      \* state of self.gen_optimizer (steps taken)
    disOpt,      \* state of self.dis_optimizer (steps taken)
    fwd,         \* the driver's last forward call: generator input and output
    ret,         \* the tuple process returned, until backward has consumed it
    nets,        \* the network and loss-primitive results ret was computed from
    pc,          \* statements of backward already executed by the running call
    events,      \* the events of the running (or last) backward call, in order
    genFile,     \* contents of <name>_gen.pth, or NoFile
    disFile,     \* contents of <name>_dis.pth, or NoFile
    raised,      \* the exception a load or backward call of a controller,
                 \* or the construction of the Config, has raised; "" if
                 \* none.  Nothing in models.py catches: the exception ends
                 \* the run of the program, which can be started again.
    yaml,        \* what the configuration file of Config (unet_unet++) parses to
    dict,        \* self._dict of the Config, or NoConfig
    attr,        \* the last attribute read from the Config: <<key, value>>
    written      \* the networks ("gen", "dis") whose parameters have been
                 \* written in place since process built the graphs of ret

vars == <<active, MODE, SCALE, iteration, genP, disP, genGrad, disGrad,
          genOpt, disOpt, fwd, ret, nets, pc, events, genFile, disFile,
          raised, yaml, dict, attr, written>>

Controllers == {"EdgeModel", "SRModel", "GradientModel"}

-----------------------------------------------------------------------------
(* Bounds of the model *)

\* iterations a controller may reach; a backward call starts only while the
\* parameter values and the optimizer steps taken are below it
MaxIter == 2
\* discriminator feature layers (length of dis_real_feat)
NLayers == 2
\* largest height and width of a low-resolution test image
MaxDim == 2
\* largest pixel value of a test image
PixMax == 2

\* largest value of an option in a configuration file
MaxOpt == 2

-----------------------------------------------------------------------------
(* Configuration *)

Modes == {1, 2, 3}
Scales == {2, 4, 8}
DEFAULT_SCALE == 4

\* loss weights, in tenths
L1_LOSS_WEIGHT == 10
FM_LOSS_WEIGHT == 100
STYLE_LOSS_WEIGHT == 2500
CONTENT_LOSS_WEIGHT == 1
ADV_LOSS_WEIGHT1 == 1
ADV_LOSS_WEIGHT2 == 10

\* image channels (rgb) and guidance-map channels
RGB == 3
GUIDE == 1

\* Config of unet_unet++/src/config.py.  Python values carry their type.
None == [type |-> "NoneType"]

PyInt(v) == [type |-> "int", value |-> v]

PyStr(s) == [type |-> "str", chars |-> s]

\* a dictionary, items a function on its keys
PyDict(items) == [type |-> "dict", items |-> items]

\* DEFAULT_CONFIG, the entries of the options below
DEFAULT_CONFIG ==
    PyDict([MODE |-> PyInt(1), SCALE |-> PyInt(DEFAULT_SCALE), DEBUG |-> PyInt(0)])

\* no Config has been constructed
NoConfig == [type |-> "undefined"]

\* Config.__init__ on a file that parses to parsed: self._dict after it, and
\* the exception that ended it, if any.  yaml.load is called without a
\* Loader (line 8), which PyYAML accepts before version 6 (legacy) and
\* rejects with TypeError from version 6 on; a file without any option
\* parses to None, and the assignment of PATH (line 9) raises TypeError.
Config_init(parsed, legacy) ==
    IF ~legacy THEN [dict |-> NoConfig, raised |-> "TypeError"]
    ELSE IF parsed.type # "dict" THEN [dict |-> NoConfig, raised |-> "TypeError"]
    ELSE [dict |-> PyDict([k \in DOMAIN parsed.items \cup {"PATH"} |->
                            IF k = "PATH" THEN PyStr("dirname")
                            ELSE parsed.items[k]]),
          raised |-> ""]

\* d.get(key): the value at key, None without the key
Get(d, key) == IF key \in DOMAIN d.items THEN d.items[key] ELSE None

\* faulty variant of the lookup: an option that is not set is taken from
\* DEFAULT_CONFIG
Config_getattr_Default(d, key) ==
    IF Get(d, key) # None THEN d.items[key]
    ELSE IF Get(DEFAULT_CONFIG, key) # None THEN DEFAULT_CONFIG.items[key]
    ELSE None

\* Config.__getattr__: the function body ends after the if, which returns
\* None
Config_getattr(d, key) == IF Get(d, key) # None THEN d.items[key] ELSE None

-----------------------------------------------------------------------------
(* Image tensors: [C, H, W, px], px a function on (channel, row, column),   *)
(* all indices from 0 as in the source.  The batch dimension is left out:   *)
(* every operation of forward acts on each batch element alone.             *)

Idx(C, H, W) == (0..(C-1)) \X (0..(H-1)) \X (0..(W-1))

Tensor(C, H, W, px) == [C |-> C, H |-> H, W |-> W, px |-> px]

\* F.interpolate(x, scale_factor = s), default mode "nearest"
Interpolate(x, s) ==
    Tensor(x.C, x.H * s, x.W * s,
           [p \in Idx(x.C, x.H * s, x.W * s) |->
               x.px[<<p[1], p[2] \div s, p[3] \div s>>]])

\* faulty variant of the kernel: the 1 in the last corner
KernelAnchor_Last(s) == <<s - 1, s - 1>>

\* kernel = np.zeros((SCALE, SCALE)); kernel[0,0] = 1;
\* np.tile(kernel, (3, 1, 1, 1)): shape (3, 1, SCALE, SCALE)
KernelAnchor(s) == <<0, 0>>
ScaleKernel(s) ==
    [C |-> RGB, K |-> s,
     w |-> [p \in Idx(RGB, s, s) |->
               IF <<p[2], p[3]>> = KernelAnchor(s) THEN 1 ELSE 0]]

\* sum of the function g over the finite set S
RECURSIVE SumOver(_, _)
SumOver(S, g) ==
    IF S = {} THEN 0
    ELSE LET e == CHOOSE e \in S : TRUE
         IN  g[e] + SumOver(S \ {e}, g)

\* the input channels convolved into output channel oc when groups = in
\* channels = out channels: the channel itself
GroupOf(oc) == {oc}

\* F.conv_transpose2d(x, weight, padding = 0, stride = s, groups = 3):
\* out[oc, y, x] = sum over the input channels ic of oc's group and the input
\* positions (i, j) whose kernel window covers (y, x) of
\* in[ic, i, j] * weight[ic, y - i*s, x - j*s]; size (H-1)*s + K.
ConvTranspose2d(x, k, s) ==
    LET OH == (x.H - 1) * s + k.K
        OW == (x.W - 1) * s + k.K
        Taps(p) == {q \in Idx(x.C, x.H, x.W) :
                       /\ q[1] \in GroupOf(p[1])
                       /\ p[2] - q[2] * s \in 0..(k.K - 1)
                       /\ p[3] - q[3] * s \in 0..(k.K - 1)}
        Tap(p) == [q \in Taps(p) |->
                      x.px[q] * k.w[<<q[1], p[2] - q[2] * s, p[3] - q[3] * s>>]]
    IN  Tensor(k.C, OH, OW,
               [p \in Idx(k.C, OH, OW) |-> SumOver(Taps(p), Tap(p))])

\* torch.cat((a, b), dim = 1): channel-wise concatenation
Cat(a, b) ==
    Tensor(a.C + b.C, a.H, a.W,
           [p \in Idx(a.C + b.C, a.H, a.W) |->
               IF p[1] < a.C THEN a.px[p]
               ELSE b.px[<<p[1] - a.C, p[2], p[3]>>]])

-----------------------------------------------------------------------------
(* Autograd tensors.  Only what the controllers' protocol depends on is     *)
(* kept: a value (for scalars), and the graph: the parameter groups the     *)
(* tensor was computed from, each with the parameter value it had in the    *)
(* forward pass.  Data tensors of the batch have an empty graph.            *)

Groups == {"gen", "dis"}

Data == [graph |-> {}]

\* faulty variant of detach: the tensor stays in the graph
Detach_Attached(t) == t

\* tensor.detach(): same data, cut from the graph
Detach(t) == [t EXCEPT !.graph = {}]

\* torch.cat on autograd tensors: the result depends on both operands
CatT(a, b) == [graph |-> a.graph \cup b.graph]

\* self.generator.forward(inputs) of controller c (EdgeGenerator, SRGenerator,
\* GradientGenerator: components.py)
Generator(c, inputs) == [graph |-> {<<"gen", genP[c]>>}]

\* self.discriminator.forward(x) of controller c: (output, features), both
\* computed from x with the discriminator parameters as they are now; acts
\* holds the activation the network produces in each feature layer
Discriminator(c, x, acts) ==
    LET g == x.graph \cup {<<"dis", disP[c]>>}
    IN  [out  |-> [graph |-> g],
         feat |-> [i \in 1..Len(acts) |-> [graph |-> g, value |-> acts[i]]]]

\* self.adversarial_loss(outputs, is_real, is_disc): a scalar computed from
\* outputs (AdversarialLoss, loss.py); v is the value it produces
AdversarialLoss(outputs, is_real, is_disc, v) ==
    [graph |-> outputs.graph, value |-> v]

\* faulty variant of the absolute value: the sign is kept
Abs_Signed(x) == x

\* |x|
Abs(x) == IF x < 0 THEN -x ELSE x

\* nn.L1Loss()(a, b) on one feature layer: mean |a - b|
L1Loss(a, b) ==
    [graph |-> a.graph \cup b.graph, value |-> Abs(a.value - b.value)]

\* a scalar loss primitive on (outputs, hr_images) with the value v:
\* self.L1_loss, self.content_loss, self.style_loss in SRModel.process
ImageLoss(outputs, hr_images, v) ==
    [graph |-> outputs.graph \cup hr_images.graph, value |-> v]

\* the Python number 0 that gen_loss, dis_loss and gen_fm_loss start from
Zero == [graph |-> {}, value |-> 0]

\* a + b
Add(a, b) == [graph |-> a.graph \cup b.graph, value |-> a.value + b.value]

\* faulty variant of the weighting: the weight is left out
Mul_Unweighted(t, w) == t

\* t * w for a configured weight w
Mul(t, w) == [t EXCEPT !.value = t.value * w]

\* faulty variant of the halving: the sum is returned
Half_Whole(t) == t

\* t / 2
Half(t) == [t EXCEPT !.value = t.value \div 2]

\* tensor.item(): the Python number held by a one-element tensor
Item(t) == t.value

-----------------------------------------------------------------------------
(* forward *)

\* EdgeModel.forward(lr_images, lr_edges) of controller c = "EdgeModel"
EdgeModel_forward(c, lr_images, lr_edges) ==
    LET hr_images == Interpolate(lr_images, SCALE)
        hr_edges  == Interpolate(lr_edges, SCALE)
        inputs    == Cat(hr_images, hr_edges)
    IN  [lr_images |-> lr_images, hr_images |-> hr_images, inputs |-> inputs,
         outputs |-> Generator(c, inputs)]

\* SRModel.forward(lr_images, hr_edges) of controller c = "SRModel"
SRModel_forward(c, lr_images, hr_edges) ==
    LET hr_images == ConvTranspose2d(lr_images, ScaleKernel(SCALE), SCALE)
        inputs    == Cat(hr_images, hr_edges)
    IN  [lr_images |-> lr_images, hr_images |-> hr_images, inputs |-> inputs,
         outputs |-> Generator(c, inputs)]

\* GradientModel.forward(lr_images, lr_gradients) of controller c
GradientModel_forward(c, lr_images, lr_gradients) ==
    LET hr_images    == Interpolate(lr_images, SCALE)
        hr_gradients == Interpolate(lr_gradients, SCALE)
        inputs       == Cat(hr_images, hr_gradients)
    IN  [lr_images |-> lr_images, hr_images |-> hr_images, inputs |-> inputs,
         outputs |-> Generator(c, inputs)]

-----------------------------------------------------------------------------
(* process: the tuple it returns.  b is the batch (lr_images, hr_images,    *)
(* lr_edges, hr_edges); n holds the values the networks and loss primitives *)
(* produce on it; it is self.iteration when the losses are computed.        *)

\* the loss log ("create logs") of EdgeModel.process
EdgeModel_logs(dis_loss, gen_gan_loss, gen_fm_loss) ==
    << <<"l_dis", Item(dis_loss)>>,
       <<"l_gen", Item(gen_gan_loss)>>,
       <<"l_fm", Item(gen_fm_loss)>> >>

\* faulty variant of the SR loss log: the l1 and content entries swapped
SRModel_logs_Swapped(dis_loss, gen_gan_loss, gen_l1_loss, gen_content_loss, gen_style_loss) ==
    << <<"l_dis", Item(dis_loss)>>,
       <<"l_gen", Item(gen_gan_loss)>>,
       <<"l_content", Item(gen_content_loss)>>,
       <<"l_l1", Item(gen_l1_loss)>>,
       <<"l_style", Item(gen_style_loss)>> >>

\* the loss log of SRModel.process
SRModel_logs(dis_loss, gen_gan_loss, gen_l1_loss, gen_content_loss, gen_style_loss) ==
    << <<"l_dis", Item(dis_loss)>>,
       <<"l_gen", Item(gen_gan_loss)>>,
       <<"l_l1", Item(gen_l1_loss)>>,
       <<"l_content", Item(gen_content_loss)>>,
       <<"l_style", Item(gen_style_loss)>> >>

\* the loss log of GradientModel.process
GradientModel_logs(dis_loss, gen_gan_loss, gen_fm_loss) ==
    << <<"l_dis", Item(dis_loss)>>,
       <<"l_gen", Item(gen_gan_loss)>>,
       <<"l_fm", Item(gen_fm_loss)>> >>

\* EdgeModel.process, after self.iteration += 1 and the two zero_grad calls
EdgeModel_process(c, b, n, it) ==
    LET outputs        == EdgeModel_forward(c, b.lr_images, b.lr_edges).outputs
        dis_input_real == CatT(Data, Data)
        dis_input_fake == CatT(Data, Detach(outputs))
        dis_real       == Discriminator(c, dis_input_real, n.real_feat)
        dis_fake       == Discriminator(c, dis_input_fake, n.fake_feat)
        dis_real_loss  == AdversarialLoss(dis_real.out, TRUE, TRUE, n.dis_real)
        dis_fake_loss  == AdversarialLoss(dis_fake.out, FALSE, TRUE, n.dis_fake)
        dis_loss       == Add(Zero, Half(Add(dis_real_loss, dis_fake_loss)))
        gen_input_fake == CatT(Data, outputs)
        gen_fake       == Discriminator(c, gen_input_fake, n.fake_feat)
        gen_gan_loss   == Mul(AdversarialLoss(gen_fake.out, TRUE, FALSE, n.gen_fake),
                              ADV_LOSS_WEIGHT1)
        fm[i \in 0..Len(dis_real.feat)] ==
            IF i = 0 THEN Zero
            ELSE Add(fm[i-1], L1Loss(gen_fake.feat[i], Detach(dis_real.feat[i])))
        gen_fm_loss    == Mul(fm[Len(dis_real.feat)], FM_LOSS_WEIGHT)
        gen_loss       == Add(Add(Zero, gen_gan_loss), gen_fm_loss)
        logs           == EdgeModel_logs(dis_loss, gen_gan_loss, gen_fm_loss)
    IN  [outputs |-> outputs, gen_loss |-> gen_loss, dis_loss |-> dis_loss,
         logs |-> logs, step |-> it]

\* SRModel.process, after self.iteration += 1 and the two zero_grad calls
SRModel_process(c, b, n, it) ==
    LET outputs          == SRModel_forward(c, b.lr_images, b.hr_edges).outputs
        hr_images        == Data
        dis_input_real   == hr_images
        dis_input_fake   == Detach(outputs)
        dis_real         == Discriminator(c, dis_input_real, n.real_feat)
        dis_fake         == Discriminator(c, dis_input_fake, n.fake_feat)
        dis_real_loss    == AdversarialLoss(dis_real.out, TRUE, TRUE, n.dis_real)
        dis_fake_loss    == AdversarialLoss(dis_fake.out, FALSE, TRUE, n.dis_fake)
        dis_loss         == Add(Zero, Half(Add(dis_real_loss, dis_fake_loss)))
        gen_input_fake   == outputs
        gen_fake         == Discriminator(c, gen_input_fake, n.fake_feat)
        gen_gan_loss     == Mul(AdversarialLoss(gen_fake.out, TRUE, FALSE, n.gen_fake),
                                ADV_LOSS_WEIGHT2)
        gen_l1_loss      == Mul(ImageLoss(outputs, hr_images, n.l1), L1_LOSS_WEIGHT)
        gen_content_loss == Mul(ImageLoss(outputs, hr_images, n.content),
                                CONTENT_LOSS_WEIGHT)
        gen_style_loss   == Mul(ImageLoss(outputs, hr_images, n.style),
                                STYLE_LOSS_WEIGHT)
        gen_loss         == Add(Add(Add(Add(Zero, gen_gan_loss), gen_l1_loss),
                                    gen_content_loss), gen_style_loss)
        logs             == SRModel_logs(dis_loss, gen_gan_loss, gen_l1_loss,
                                         gen_content_loss, gen_style_loss)
    IN  [outputs |-> outputs, gen_loss |-> gen_loss, dis_loss |-> dis_loss,
         logs |-> logs, step |-> it]

\* GradientModel.process, after self.iteration += 1 and the two zero_grad calls
GradientModel_process(c, b, n, it) ==
    LET outputs        == GradientModel_forward(c, b.lr_images, b.lr_edges).outputs
        dis_input_real == CatT(Data, Data)
        dis_input_fake == CatT(Data, Detach(outputs))
        dis_real       == Discriminator(c, dis_input_real, n.real_feat)
        dis_fake       == Discriminator(c, dis_input_fake, n.fake_feat)
        dis_real_loss  == AdversarialLoss(dis_real.out, TRUE, TRUE, n.dis_real)
        dis_fake_loss  == AdversarialLoss(dis_fake.out, FALSE, TRUE, n.dis_fake)
        dis_loss       == Add(Zero, Half(Add(dis_real_loss, dis_fake_loss)))
        gen_input_fake == CatT(Data, outputs)
        gen_fake       == Discriminator(c, gen_input_fake, n.fake_feat)
        gen_gan_loss   == Mul(AdversarialLoss(gen_fake.out, TRUE, FALSE, n.gen_fake),
                              ADV_LOSS_WEIGHT1)
        fm[i \in 0..Len(dis_real.feat)] ==
            IF i = 0 THEN Zero
            ELSE Add(fm[i-1], L1Loss(gen_fake.feat[i], Detach(dis_real.feat[i])))
        gen_fm_loss    == Mul(fm[Len(dis_real.feat)], FM_LOSS_WEIGHT)
        gen_loss       == Add(Add(Zero, gen_gan_loss), gen_fm_loss)
        logs           == GradientModel_logs(dis_loss, gen_gan_loss, gen_fm_loss)
    IN  [outputs |-> outputs, gen_loss |-> gen_loss, dis_loss |-> dis_loss,
         logs |-> logs, step |-> it]

-----------------------------------------------------------------------------
(* Inputs *)

\* the rgb image of size h x w with value v at position m and b elsewhere
Image(h, w, m, v, b) ==
    Tensor(RGB, h, w, [p \in Idx(RGB, h, w) |-> IF p = m THEN v ELSE b])

\* a guidance map (edge or gradient map) of size h x w
Guidance(h, w) == Tensor(GUIDE, h, w, [p \in Idx(GUIDE, h, w) |-> 1])

\* the batch the dataset pipeline yields for a low-resolution image under
\* scale factor s
Batch(img, s) ==
    [lr_images |-> img,
     lr_edges  |-> Guidance(img.H, img.W),
     hr_edges  |-> Guidance(img.H * s, img.W * s)]

\* the low-resolution images of the upsampling checks
TestImages ==
    UNION {{Image(h, w, m, v, b) : m \in Idx(RGB, h, w), v \in 1..PixMax,
                                   b \in 0..PixMax} :
           <<h, w>> \in (1..MaxDim) \X (1..MaxDim)}

\* the low-resolution images of the training runs
TrainImages == {Image(1, 1, <<1, 0, 0>>, 2, 1)}

\* raw adversarial-loss values, in hundredths
AdvVals == {0, 200}
\* discriminator activations of one feature layer, in hundredths
Acts == {0, 5}
Feats == [1..NLayers -> Acts]

\* what the networks and loss primitives may produce in one Edge/Gradient
\* step
GuidedNets ==
    [dis_real : {100}, dis_fake : AdvVals, gen_fake : AdvVals,
     real_feat : Feats, fake_feat : Feats]

\* what the networks and loss primitives may produce in one SR step
SRNets ==
    [dis_real : {100}, dis_fake : AdvVals, gen_fake : AdvVals,
     real_feat : {[i \in 1..NLayers |-> 0]},
     fake_feat : {[i \in 1..NLayers |-> 0]},
     l1 : {0, 30}, content : {0, 40}, style : {0, 2}]

Nets(c) == IF c = "SRModel" THEN SRNets ELSE GuidedNets

\* the ones of them the runs of whole steps draw
GuidedTrainNet ==
    [dis_real |-> 100, dis_fake |-> 0, gen_fake |-> 200,
     real_feat |-> [i \in 1..NLayers |-> 0],
     fake_feat |-> [i \in 1..NLayers |-> IF i = 1 THEN 5 ELSE 0]]

SRTrainNet ==
    [dis_real |-> 100, dis_fake |-> 0, gen_fake |-> 200,
     real_feat |-> [i \in 1..NLayers |-> 0],
     fake_feat |-> [i \in 1..NLayers |-> 0],
     l1 |-> 30, content |-> 40, style |-> 2]

TrainNets(c) == IF c = "SRModel" THEN {SRTrainNet} ELSE {GuidedTrainNet}

-----------------------------------------------------------------------------
(* State *)

NoFile == [exists |-> FALSE]

\* a configuration file that sets no option
NoOptions == PyDict([k \in {} |-> None])

\* BaseModel.__init__ and the subclass constructors: the state of a freshly
\* constructed controller (files are not touched)
Constructed ==
    [iteration |-> 0, genP |-> 0, disP |-> 0, genGrad |-> {}, disGrad |-> {},
     genOpt |-> 0, disOpt |-> 0]

InitControllers ==
    /\ iteration = [c \in Controllers |-> Constructed.iteration]
    /\ genP = [c \in Controllers |-> Constructed.genP]
    /\ disP = [c \in Controllers |-> Constructed.disP]
    /\ genGrad = [c \in Controllers |-> Constructed.genGrad]
    /\ disGrad = [c \in Controllers |-> Constructed.disGrad]
    /\ genOpt = [c \in Controllers |-> Constructed.genOpt]
    /\ disOpt = [c \in Controllers |-> Constructed.disOpt]
    /\ fwd = [c \in Controllers |-> <<>>]
    /\ ret = [c \in Controllers |-> <<>>]
    /\ nets = [c \in Controllers |-> <<>>]
    /\ pc = [c \in Controllers |-> 0]
    /\ events = [c \in Controllers |-> <<>>]
    /\ raised = [o \in Controllers \cup {"Config"} |-> ""]
    /\ dict = NoConfig
    /\ attr = <<>>
    /\ written = [c \in Controllers |-> {}]

\* a program starts on one controller, in any mode, without files; the
\* runs of whole steps use the smallest scale factor
Init ==
    /\ active \in Controllers
    /\ MODE \in Modes
    /\ SCALE = 2
    /\ InitControllers
    /\ genFile = [c \in Controllers |-> NoFile]
    /\ disFile = [c \in Controllers |-> NoFile]
    /\ yaml = NoOptions

-----------------------------------------------------------------------------
(* Operations *)

ForwardOf(c, b) ==
    CASE c = "EdgeModel"     -> EdgeModel_forward(c, b.lr_images, b.lr_edges)
      [] c = "SRModel"       -> SRModel_forward(c, b.lr_images, b.hr_edges)
      [] c = "GradientModel" -> GradientModel_forward(c, b.lr_images, b.lr_edges)

ProcessOf(c, b, n, it) ==
    CASE c = "EdgeModel"     -> EdgeModel_process(c, b, n, it)
      [] c = "SRModel"       -> SRModel_process(c, b, n, it)
      [] c = "GradientModel" -> GradientModel_process(c, b, n, it)

\* a call of forward from the driver
Forward(c, img) ==
    /\ c = active /\ pc[c] = 0 /\ raised[c] = ""
    /\ UNCHANGED <<active, MODE, SCALE, iteration, genP, disP, genGrad, disGrad,
                   genOpt, disOpt, ret, nets, pc, events, genFile, disFile,
                   raised, yaml, dict, attr, written>>
    /\ fwd' = [fwd EXCEPT ![c] = <<ForwardOf(c, Batch(img, SCALE))>>]

\* faulty variant of zero_grad: the gradients are kept
ZeroGrad_Keep(grad) == grad \cup {[loss |-> "stale", step |-> 0]}

\* faulty variant of zero_grad: nothing is cleared
ZeroGrad_Noop(grad) == grad

\* optimizer.zero_grad(): the accumulated gradients of its parameters
ZeroGrad(grad) == {}

\* faulty variant of the increment: by two
NextIteration_Twice(c) == iteration[c] + 2

\* self.iteration += 1
NextIteration(c) == iteration[c] + 1

\* a call of process, in whatever mode the controller was configured
Process(c, img, n) ==
    /\ c = active /\ pc[c] = 0 /\ raised[c] = ""
    /\ iteration[c] < MaxIter
    /\ LET it == NextIteration(c)
       IN  /\ iteration' = [iteration EXCEPT ![c] = it]
           /\ genGrad' = [genGrad EXCEPT ![c] = ZeroGrad(@)]
           /\ disGrad' = [disGrad EXCEPT ![c] = ZeroGrad(@)]
           /\ ret' = [ret EXCEPT ![c] = <<ProcessOf(c, Batch(img, SCALE), n, it)>>]
           /\ nets' = [nets EXCEPT ![c] = <<n>>]
           /\ written' = [written EXCEPT ![c] = {}]
    /\ UNCHANGED <<active, MODE, SCALE, genP, disP, genOpt, disOpt, fwd, pc,
                   events, genFile, disFile, raised, yaml, dict, attr>>

\* the statements of backward(gen_loss, dis_loss), in program order
EdgeModel_backward ==
    <<"dis_loss.backward", "dis_optimizer.step",
      "gen_loss.backward", "gen_optimizer.step">>

SRModel_backward ==
    <<"dis_loss.backward", "dis_optimizer.step",
      "gen_loss.backward", "gen_optimizer.step">>

GradientModel_backward ==
    <<"dis_loss.backward", "dis_optimizer.step",
      "gen_loss.backward", "gen_optimizer.step">>

BackwardOf(c) ==
    CASE c = "EdgeModel"     -> EdgeModel_backward
      [] c = "SRModel"       -> SRModel_backward
      [] c = "GradientModel" -> GradientModel_backward

\* whether the graph of loss reaches the parameters of group g
Reaches(loss, g) == \E e \in loss.graph : e[1] = g

\* loss.backward(): accumulates into .grad of every parameter the graph
\* reaches the gradient of this loss
Accumulate(grad, loss, g, name, step) ==
    IF Reaches(loss, g) THEN grad \cup {[loss |-> name, step |-> step]}
    ELSE grad

\* The graph of a loss keeps the parameters it reaches for its backward
\* pass.  Where an in-place write of a parameter counts as a modification of
\* the tensor (PyTorch from 1.5 on), loss.backward() on a graph that reaches
\* a network written since the forward pass raises RuntimeError before any
\* gradient is accumulated.
MayReject(c, loss) == \E g \in written[c] : Reaches(loss, g)

\* faulty variant of the constructors: both optimizers are given the
\* generator's parameters
OptimizerParams_Shared(opt) == "gen"

\* optim.Adam(params = ...): the parameters each optimizer was constructed
\* with
OptimizerParams(opt) == IF opt = "gen_optimizer" THEN "gen" ELSE "dis"

\* optimizer.step() (Adam): the parameter value after the update
OptimizerStep(p, grad) == p + 1

\* one statement of a backward call: the next one in program order.  An
\* optimizer step writes its parameters in place; so does load.  A
\* back-propagation whose graph reaches a network written since process
\* either proceeds or, on the builds that check, raises RuntimeError, and
\* backward ends there: nothing in the method catches.  That is always so
\* for gen_loss.backward(), which follows dis_optimizer.step(), and for
\* dis_loss.backward() when load has restored the discriminator between
\* process and backward.
BackwardStep(c) ==
    /\ c = active /\ ret[c] # <<>> /\ raised[c] = ""
    /\ pc[c] = 0 => genP[c] < MaxIter /\ disP[c] < MaxIter /\ disOpt[c] < MaxIter
    /\ LET r    == ret[c][1]
           stmt == BackwardOf(c)[pc[c] + 1]
           last == pc[c] + 1 = Len(BackwardOf(c))
           loss == IF stmt = "dis_loss.backward" THEN r.dis_loss ELSE r.gen_loss
       IN  \/ /\ CASE stmt = "dis_loss.backward" ->
                        /\ genGrad' = [genGrad EXCEPT ![c] =
                              Accumulate(@, r.dis_loss, "gen", "dis_loss", r.step)]
                        /\ disGrad' = [disGrad EXCEPT ![c] =
                              Accumulate(@, r.dis_loss, "dis", "dis_loss", r.step)]
                        /\ UNCHANGED <<genP, disP, genOpt, disOpt, written>>
                   [] stmt = "dis_optimizer.step" ->
                        LET own == OptimizerParams("dis_optimizer")
                        IN  /\ genP' = [genP EXCEPT ![c] =
                                   IF own = "gen" THEN OptimizerStep(@, genGrad[c])
                                   ELSE @]
                            /\ disP' = [disP EXCEPT ![c] =
                                   IF own = "dis" THEN OptimizerStep(@, disGrad[c])
                                   ELSE @]
                            /\ disOpt' = [disOpt EXCEPT ![c] = @ + 1]
                            /\ UNCHANGED <<genOpt, genGrad, disGrad>>
                            /\ written' = [written EXCEPT ![c] =
                                              IF last THEN {} ELSE @ \cup {own}]
                   [] stmt = "gen_loss.backward" ->
                        /\ genGrad' = [genGrad EXCEPT ![c] =
                              Accumulate(@, r.gen_loss, "gen", "gen_loss", r.step)]
                        /\ disGrad' = [disGrad EXCEPT ![c] =
                              Accumulate(@, r.gen_loss, "dis", "gen_loss", r.step)]
                        /\ UNCHANGED <<genP, disP, genOpt, disOpt, written>>
                   [] stmt = "gen_optimizer.step" ->
                        LET own == OptimizerParams("gen_optimizer")
                        IN  /\ genP' = [genP EXCEPT ![c] =
                                   IF own = "gen" THEN OptimizerStep(@, genGrad[c])
                                   ELSE @]
                            /\ disP' = [disP EXCEPT ![c] =
                                   IF own = "dis" THEN OptimizerStep(@, disGrad[c])
                                   ELSE @]
                            /\ genOpt' = [genOpt EXCEPT ![c] = @ + 1]
                            /\ UNCHANGED <<disOpt, genGrad, disGrad>>
                            /\ written' = [written EXCEPT ![c] =
                                              IF last THEN {} ELSE @ \cup {own}]
              /\ events' = [events EXCEPT ![c] =
                               IF pc[c] = 0 THEN <<stmt>> ELSE Append(@, stmt)]
              /\ pc' = [pc EXCEPT ![c] = IF last THEN 0 ELSE @ + 1]
              /\ ret' = [ret EXCEPT ![c] = IF last THEN <<>> ELSE @]
              /\ nets' = [nets EXCEPT ![c] = IF last THEN <<>> ELSE @]
              /\ UNCHANGED raised
           \/ /\ stmt \in {"dis_loss.backward", "gen_loss.backward"}
              /\ MayReject(c, loss)
              /\ raised' = [raised EXCEPT ![c] = "RuntimeError"]
              /\ events' = [events EXCEPT ![c] = IF pc[c] = 0 THEN <<>> ELSE @]
              /\ pc' = [pc EXCEPT ![c] = 0]
              /\ ret' = [ret EXCEPT ![c] = <<>>]
              /\ nets' = [nets EXCEPT ![c] = <<>>]
              /\ written' = [written EXCEPT ![c] = {}]
              /\ UNCHANGED <<genP, disP, genOpt, disOpt, genGrad, disGrad>>
    /\ UNCHANGED <<active, MODE, SCALE, iteration, fwd, genFile, disFile,
                   yaml, dict, attr>>

\* faulty variant of save: the generator file gets the counter of the step
\* before
SavedGen_StaleIteration(c) ==
    [exists |-> TRUE,
     iteration |-> IF iteration[c] > 0 THEN iteration[c] - 1 ELSE 0,
     generator |-> genP[c]]

\* what BaseModel.save writes to gen_weights_path and dis_weights_path
SavedGen(c) ==
    [exists |-> TRUE, iteration |-> iteration[c], generator |-> genP[c]]

\* faulty variant of save: the optimizer state is written too
SavedDis_WithOptimizer(c) ==
    [exists |-> TRUE, discriminator |-> disP[c], optimizer |-> disOpt[c]]

SavedDis(c) == [exists |-> TRUE, discriminator |-> disP[c]]

\* BaseModel.save
Save(c) ==
    /\ c = active /\ pc[c] = 0 /\ raised[c] = ""
    /\ genFile' = [genFile EXCEPT ![c] = SavedGen(c)]
    /\ disFile' = [disFile EXCEPT ![c] = SavedDis(c)]
    /\ UNCHANGED <<active, MODE, SCALE, iteration, genP, disP, genGrad, disGrad,
                   genOpt, disOpt, fwd, ret, nets, pc, events, raised, yaml,
                   dict, attr, written>>

\* faulty variants of the branch conditions: the discriminator in every
\* mode, the generator without looking for the file
LoadsDiscriminator_AnyMode(c) == disFile[c].exists

LoadsGenerator_Always(c) == TRUE

\* BaseModel.load: the conditions of its two branches
LoadsGenerator(c) == genFile[c].exists

LoadsDiscriminator(c) == MODE = 1 /\ disFile[c].exists

\* torch.load(path): unpickles the file; a file that is no pickle raises
Deserializes(f) == "corrupt" \notin DOMAIN f

\* data[key]: a dictionary without the key raises KeyError
HasEntry(f, key) == key \in DOMAIN f

\* faulty variant of line 34: load resumes one iteration later
LoadedIteration_Next(f) == f.iteration + 1

\* self.iteration = data['iteration']
LoadedIteration(f) == f.iteration

\* the generator branch of load (lines 25-34): the generator parameters and
\* the counter after it, the networks load_state_dict has written, and the
\* exception that ended it, if any
LoadGenerator(c) ==
    LET f    == genFile[c]
        same == [genP |-> genP[c], iteration |-> iteration[c], raised |-> "",
                 loaded |-> {}]
    IN  IF ~LoadsGenerator(c) THEN same
        ELSE IF ~Deserializes(f)
             THEN [same EXCEPT !.raised = "UnpicklingError"]
        ELSE IF ~HasEntry(f, "generator")
             THEN [same EXCEPT !.raised = "KeyError"]
        ELSE IF ~HasEntry(f, "iteration")
             THEN [same EXCEPT !.genP = f.generator, !.raised = "KeyError",
                               !.loaded = {"gen"}]
        ELSE [genP |-> f.generator, iteration |-> LoadedIteration(f),
              raised |-> "", loaded |-> {"gen"}]

\* the discriminator branch of load (lines 37-45)
LoadDiscriminator(c) ==
    LET f    == disFile[c]
        same == [disP |-> disP[c], raised |-> "", loaded |-> {}]
    IN  IF ~LoadsDiscriminator(c) THEN same
        ELSE IF ~Deserializes(f)
             THEN [same EXCEPT !.raised = "UnpicklingError"]
        ELSE IF ~HasEntry(f, "discriminator")
             THEN [same EXCEPT !.raised = "KeyError"]
        ELSE [disP |-> f.discriminator, raised |-> "", loaded |-> {"dis"}]

\* BaseModel.load: the generator branch, then, unless that raised, the
\* discriminator branch; nothing is caught.  load_state_dict (lines 33, 45)
\* copies into the parameters in place.
Load(c) ==
    /\ c = active /\ pc[c] = 0 /\ raised[c] = ""
    /\ LET g == LoadGenerator(c)
           d == IF g.raised = "" THEN LoadDiscriminator(c)
                ELSE [disP |-> disP[c], raised |-> g.raised, loaded |-> {}]
       IN  /\ genP' = [genP EXCEPT ![c] = g.genP]
           /\ iteration' = [iteration EXCEPT ![c] = g.iteration]
           /\ disP' = [disP EXCEPT ![c] = d.disP]
           /\ raised' = [raised EXCEPT ![c] = d.raised]
           /\ written' = [written EXCEPT ![c] =
                             IF ret[c] = <<>> THEN @
                             ELSE @ \cup g.loaded \cup d.loaded]
    /\ UNCHANGED <<active, MODE, SCALE, genGrad, disGrad, genOpt, disOpt, fwd,
                   ret, nets, pc, events, genFile, disFile, yaml, dict, attr>>

\* the training or test program is started again with configuration mode m:
\* the controller is constructed anew; the checkpoint files stay
Restart(c, m) ==
    /\ c = active /\ pc[c] = 0
    /\ MODE' = m
    /\ iteration' = [iteration EXCEPT ![c] = Constructed.iteration]
    /\ genP' = [genP EXCEPT ![c] = Constructed.genP]
    /\ disP' = [disP EXCEPT ![c] = Constructed.disP]
    /\ genGrad' = [genGrad EXCEPT ![c] = Constructed.genGrad]
    /\ disGrad' = [disGrad EXCEPT ![c] = Constructed.disGrad]
    /\ genOpt' = [genOpt EXCEPT ![c] = Constructed.genOpt]
    /\ disOpt' = [disOpt EXCEPT ![c] = Constructed.disOpt]
    /\ fwd' = [fwd EXCEPT ![c] = <<>>]
    /\ ret' = [ret EXCEPT ![c] = <<>>]
    /\ nets' = [nets EXCEPT ![c] = <<>>]
    /\ events' = [events EXCEPT ![c] = <<>>]
    /\ raised' = [raised EXCEPT ![c] = ""]
    /\ written' = [written EXCEPT ![c] = {}]
    /\ UNCHANGED <<active, SCALE, pc, genFile, disFile, yaml, dict, attr>>

Next ==
    \E c \in Controllers :
       \/ \E img \in TrainImages : Forward(c, img)
       \/ \E img \in TrainImages, n \in TrainNets(c) : Process(c, img, n)
       \/ BackwardStep(c)
       \/ Save(c)
       \/ Load(c)
       \/ \E m \in Modes : Restart(c, m)

Spec == Init /\ [][Next]_vars

\* the loss composition of process, on every combination of network results
NextLoss ==
    \E c \in Controllers :
       \/ \E img \in TrainImages, n \in Nets(c) : Process(c, img, n)
       \/ BackwardStep(c)

SpecLoss == Init /\ [][NextLoss]_vars

\* the upsampling of SRModel.forward: one forward call of a test program
\* (MODE 2), on every test image and scale factor
InitUp ==
    /\ active = "SRModel"
    /\ MODE = 2
    /\ SCALE \in Scales
    /\ InitControllers
    /\ genFile = [c \in Controllers |-> NoFile]
    /\ disFile = [c \in Controllers |-> NoFile]
    /\ yaml = NoOptions

NextUp ==
    \E c \in Controllers, img \in TestImages : fwd[c] = <<>> /\ Forward(c, img)

SpecUp == InitUp /\ [][NextUp]_vars

\* what a program may find at gen_weights_path when it starts: nothing, a
\* checkpoint of an earlier run, a file that is no pickle, or a pickled
\* dictionary that lacks entries
GenFiles ==
    {NoFile}
    \cup [exists : {TRUE}, iteration : 0..MaxIter, generator : 0..MaxIter]
    \cup {[exists |-> TRUE, corrupt |-> TRUE], [exists |-> TRUE]}
    \cup [exists : {TRUE}, iteration : 0..MaxIter]
    \cup [exists : {TRUE}, generator : 0..MaxIter]

\* and at dis_weights_path
DisFiles ==
    {NoFile}
    \cup [exists : {TRUE}, discriminator : 0..MaxIter]
    \cup {[exists |-> TRUE, corrupt |-> TRUE], [exists |-> TRUE]}

\* the checkpoint handling: a program starts in any mode on any files, then
\* loads and saves
InitFiles ==
    /\ active \in Controllers
    /\ MODE \in Modes
    /\ SCALE = DEFAULT_SCALE
    /\ InitControllers
    /\ \E g \in GenFiles, d \in DisFiles :
          /\ genFile = [c \in Controllers |-> IF c = active THEN g ELSE NoFile]
          /\ disFile = [c \in Controllers |-> IF c = active THEN d ELSE NoFile]
    /\ yaml = NoOptions

NextFiles == \E c \in Controllers : Load(c) \/ Save(c)

SpecFiles == InitFiles /\ [][NextFiles]_vars

\* the options a configuration file may set, and what it may set them to
FileKeys == {"MODE", "SCALE", "DEBUG"}

FileValues == {None} \cup {PyInt(v) : v \in 0..MaxOpt}

\* what yaml.load may give: a mapping, or None for a file without content
YamlFiles ==
    {None} \cup {PyDict(f) : f \in UNION {[K -> FileValues] : K \in SUBSET FileKeys}}

\* Config(config_path)
NewConfig ==
    /\ dict = NoConfig /\ raised["Config"] = ""
    /\ \E legacy \in BOOLEAN :
          LET made == Config_init(yaml, legacy)
          IN  /\ dict' = made.dict
              /\ raised' = [raised EXCEPT !["Config"] = made.raised]
    /\ UNCHANGED <<active, MODE, SCALE, iteration, genP, disP, genGrad, disGrad,
                   genOpt, disOpt, fwd, ret, nets, pc, events, genFile, disFile,
                   yaml, attr, written>>

\* config.<key> on a constructed Config
GetAttr(key) ==
    /\ dict # NoConfig
    /\ attr' = <<key, Config_getattr(dict, key)>>
    /\ UNCHANGED <<active, MODE, SCALE, iteration, genP, disP, genGrad, disGrad,
                   genOpt, disOpt, fwd, ret, nets, pc, events, genFile, disFile,
                   raised, yaml, dict, written>>

\* the configuration lookup: any file is read, then attributes are read
InitConfig ==
    /\ active = "EdgeModel"
    /\ MODE = 1
    /\ SCALE = DEFAULT_SCALE
    /\ InitControllers
    /\ genFile = [c \in Controllers |-> NoFile]
    /\ disFile = [c \in Controllers |-> NoFile]
    /\ yaml \in YamlFiles

NextConfig == NewConfig \/ \E key \in FileKeys \cup {"PATH"} : GetAttr(key)

SpecConfig == InitConfig /\ [][NextConfig]_vars

-----------------------------------------------------------------------------
(* Properties *)

IsProcess(c) ==
    c = active /\ \E img \in TrainImages, n \in TrainNets(c) : Process(c, img, n)

IsForward(c) == c = active /\ \E img \in TrainImages : Forward(c, img)

\* A program that works with two controllers, one after the other, in
\* training mode: each is an object of its own with its own networks,
\* optimizers and checkpoint paths (models.py:13-22).

\* a controller as its constructor leaves it, without checkpoint files
Fresh(c) ==
    /\ iteration[c] = Constructed.iteration
    /\ genP[c] = Constructed.genP /\ disP[c] = Constructed.disP
    /\ genOpt[c] = Constructed.genOpt /\ disOpt[c] = Constructed.disOpt
    /\ genGrad[c] = Constructed.genGrad /\ disGrad[c] = Constructed.disGrad
    /\ fwd[c] = <<>> /\ events[c] = <<>>
    /\ ~genFile[c].exists /\ ~disFile[c].exists

\* the program goes on with controller c: between two calls, with no result
\* of the controller in use still held, and with no third controller used
Use(c) ==
    /\ c # active
    /\ pc[active] = 0 /\ ret[active] = <<>> /\ fwd[active] = <<>>
    /\ raised[active] = ""
    /\ \A d \in Controllers \ {active} : Fresh(d)
    /\ active' = c
    /\ UNCHANGED <<MODE, SCALE, iteration, genP, disP, genGrad, disGrad,
                   genOpt, disOpt, fwd, ret, nets, pc, events, genFile, disFile,
                   raised, yaml, dict, attr, written>>

\* a call on controller c
Call(c) ==
    IsForward(c) \/ IsProcess(c) \/ BackwardStep(c) \/ Save(c) \/ Load(c)

Total(f) == f["EdgeModel"] + f["SRModel"] + f["GradientModel"]

\* the runs of two controllers are bounded in total
Budget ==
    /\ Total(iteration) <= MaxIter /\ Total(disOpt) <= MaxIter
    /\ Total(genP) <= MaxIter /\ Total(disP) <= MaxIter

InitOwners == Init /\ MODE = 1

NextOwners == \E c \in Controllers : Use(c) \/ (Call(c) /\ Budget')

SpecOwners == InitOwners /\ [][NextOwners]_vars

BackwardOrder ==
    <<"dis_loss.backward", "dis_optimizer.step",
      "gen_loss.backward", "gen_optimizer.step">>

\* C1 as stated: in each controller every backward call performs exactly the
\* four events discriminator-loss back-propagation, discriminator optimizer
\* step, generator-loss back-propagation, generator optimizer step, in this
\* order: the events of a running call are the first pc of them, a call that
\* has ended has performed all four, the generator optimizer has stepped only
\* after the discriminator optimizer of the same call, and no gradient of the
\* generator loss is accumulated before that discriminator step.
C1_BackwardOrder ==
    \A c \in Controllers :
       /\ Len(events[c]) <= Len(BackwardOrder)
       /\ events[c] = SubSeq(BackwardOrder, 1, Len(events[c]))
       /\ pc[c] # 0 => Len(events[c]) = pc[c]
       /\ pc[c] = 0 => Len(events[c]) \in {0, Len(BackwardOrder)}
       /\ pc[c] \in {0, 1} => disOpt[c] = genOpt[c]
       /\ pc[c] \in {2, 3} => disOpt[c] = genOpt[c] + 1
       /\ pc[c] \in {1, 2} =>
             \A g \in genGrad[c] \cup disGrad[c] : g.loss # "gen_loss"

\* C2: a process call performs no backward pass and no optimizer step: it
\* leaves the generator parameters, the discriminator parameters, both
\* optimizers' states, the backward events and the checkpoint files as they
\* were; it increments the iteration counter and clears both gradient
\* accumulators.
C2_ProcessFrame ==
    [][\A c \in Controllers :
          IsProcess(c) =>
             /\ genP'[c] = genP[c] /\ disP'[c] = disP[c]
             /\ genOpt'[c] = genOpt[c] /\ disOpt'[c] = disOpt[c]
             /\ events'[c] = events[c] /\ pc'[c] = 0
             /\ genFile'[c] = genFile[c] /\ disFile'[c] = disFile[c]
             /\ genGrad'[c] = {} /\ disGrad'[c] = {}
             /\ iteration'[c] = iteration[c] + 1]_vars

\* process has returned on a controller that was trained before: its
\* parameters and optimizers are those of the earlier step, the gradients of
\* that step are cleared
C2_Witness ==
    \E c \in Controllers :
       /\ ret[c] # <<>> /\ pc[c] = 0
       /\ iteration[c] = 2 /\ ret[c][1].step = 2
       /\ genP[c] = 1 /\ disP[c] = 1 /\ genOpt[c] = 1 /\ disOpt[c] = 1
       /\ genGrad[c] = {} /\ disGrad[c] = {}

\* C3: the iteration counter is 0 on construction; a process call increases
\* it by exactly one, and the losses it returns are computed after the
\* increment; forward, backward and save leave it unchanged.  A fresh Edge
\* controller after one process and one backward call has iteration 1.
C3_IterationCounter ==
    /\ \A c \in Controllers : iteration[c] = 0
    /\ [][\A c \in Controllers :
             /\ IsProcess(c) =>
                   /\ iteration'[c] = iteration[c] + 1
                   /\ ret'[c][1].step = iteration[c] + 1
             /\ IsForward(c) \/ BackwardStep(c) \/ Save(c) =>
                   iteration'[c] = iteration[c]
             /\ (\E m \in Modes : Restart(c, m)) => iteration'[c] = 0]_vars

\* a fresh Edge controller after one process call and one backward call
C3_Witness ==
    /\ iteration["EdgeModel"] = 1
    /\ genOpt["EdgeModel"] = 1 /\ disOpt["EdgeModel"] = 1
    /\ pc["EdgeModel"] = 0 /\ ret["EdgeModel"] = <<>>
    /\ genFile["EdgeModel"] = NoFile

\* C4 as stated: over process, backward, save and load calls the iteration
\* counter of a controller never decreases.
C4_NeverDecreases ==
    [][\A c \in Controllers :
          IsProcess(c) \/ BackwardStep(c) \/ Save(c) \/ Load(c) =>
             iteration'[c] >= iteration[c]]_vars

\* C4 as amended: the iteration counter never decreases over process, backward
\* and save calls; a load call sets it to the value stored in the generator
\* checkpoint, whatever the current value, and leaves it unchanged when there
\* is no generator checkpoint.
C4_MonotoneExceptLoad ==
    [][\A c \in Controllers :
          /\ IsProcess(c) \/ BackwardStep(c) \/ Save(c) =>
                iteration'[c] >= iteration[c]
          /\ Load(c) =>
                iteration'[c] = IF genFile[c].exists THEN genFile[c].iteration
                                ELSE iteration[c]]_vars

\* a controller whose counter was taken back by load: it has taken two
\* optimizer steps since construction and its counter is below two
C4_Witness ==
    \E c \in Controllers :
       /\ genOpt[c] = 2 /\ iteration[c] < 2
       /\ genFile[c].exists /\ genFile[c].iteration = iteration[c]

\* C5: checkpoint round trip.  save writes the controller's iteration counter
\* and generator parameters to the generator file and its discriminator
\* parameters to the discriminator file, nothing else changes the two files,
\* and load in training mode, with both files present, sets the iteration
\* counter, the generator parameters and the discriminator parameters to the
\* contents of the files: those of the last save, whatever controller loads.
C5_CheckpointRoundTrip ==
    [][\A c \in Controllers :
          /\ Save(c) =>
                /\ genFile'[c].exists /\ disFile'[c].exists
                /\ genFile'[c].iteration = iteration[c]
                /\ genFile'[c].generator = genP[c]
                /\ disFile'[c].discriminator = disP[c]
          /\ ~Save(c) => genFile'[c] = genFile[c] /\ disFile'[c] = disFile[c]
          /\ Load(c) /\ MODE = 1 /\ genFile[c].exists /\ disFile[c].exists =>
                /\ iteration'[c] = genFile[c].iteration
                /\ genP'[c] = genFile[c].generator
                /\ disP'[c] = disFile[c].discriminator]_vars

\* a fresh controller in training mode (no optimizer step taken) that holds the
\* counter and the parameters a trained controller saved
C5_Witness ==
    \E c \in Controllers :
       /\ MODE = 1 /\ genOpt[c] = 0 /\ disOpt[c] = 0
       /\ iteration[c] = 2 /\ genP[c] = 2 /\ disP[c] = 2
       /\ genFile[c] = [exists |-> TRUE, iteration |-> 2, generator |-> 2]
       /\ disFile[c] = [exists |-> TRUE, discriminator |-> 2]

\* C6: gradient isolation of the discriminator loss.  The discriminator loss
\* process returns does not reach the generator parameters (its fake input is
\* the detached generator output), so after the discriminator-loss
\* back-propagation alone the generator parameters have no accumulated
\* gradient, and no gradient of the discriminator loss is ever accumulated on
\* them.
C6_GradientIsolation ==
    \A c \in Controllers :
       /\ ret[c] # <<>> => ~Reaches(ret[c][1].dis_loss, "gen")
       /\ pc[c] = 1 => genGrad[c] = {}
       /\ \A g \in genGrad[c] : g.loss # "dis_loss"

\* the discriminator loss alone has been back-propagated: the discriminator
\* parameters hold its gradient
C6_Witness ==
    \E c \in Controllers :
       /\ pc[c] = 1 /\ events[c] = <<"dis_loss.backward">>
       /\ \E g \in disGrad[c] : g.loss = "dis_loss"

\* the discriminator parameter values a loss was computed with in process
DisAtForward(loss) == {e[2] : e \in {x \in loss.graph : x[1] = "dis"}}

\* C7 as stated: in every process/backward step the discriminator optimizer
\* step is computed from gradients of forward passes made with the
\* pre-update discriminator parameters; the generator loss was evaluated in
\* process with the discriminator parameters as they stood before the
\* discriminator step of the backward call; and the generator optimizer step
\* is computed from that loss: the generator back-propagation is not handed
\* discriminator parameters the step has mutated, so it is never rejected for
\* them after the discriminator step of its call.
C7_PreUpdateDiscriminator ==
    \A c \in Controllers :
       /\ ret[c] # <<>> =>
             /\ Cardinality(DisAtForward(ret[c][1].dis_loss)) = 1
             /\ DisAtForward(ret[c][1].gen_loss) = DisAtForward(ret[c][1].dis_loss)
       /\ pc[c] \in {0, 1} /\ ret[c] # <<>> /\ "dis" \notin written[c] =>
             DisAtForward(ret[c][1].dis_loss) = {disP[c]}
       /\ pc[c] = 3 => "gen_loss" \in {g.loss : g \in genGrad[c]}
       /\ ~ /\ raised[c] = "RuntimeError"
            /\ events[c] = <<"dis_loss.backward", "dis_optimizer.step">>

\* the names of a loss log, in order
LogNames(logs) == [i \in 1..Len(logs) |-> logs[i][1]]

\* the sum of the values of the log entries from the i-th on
RECURSIVE LogSum(_, _)
LogSum(logs, i) ==
    IF i > Len(logs) THEN 0 ELSE logs[i][2] + LogSum(logs, i + 1)

\* C8: the loss log process returns has a fixed shape: for Edge and Gradient
\* the three entries l_dis, l_gen, l_fm, for SR the five entries l_dis, l_gen,
\* l_l1, l_content, l_style, in this order; the first entry is the
\* discriminator loss, and the terms added to the generator loss are the other
\* entries, each once: they add up to the generator loss.
C8_LogShape ==
    \A c \in Controllers :
       ret[c] # <<>> =>
          LET r == ret[c][1]
          IN  /\ LogNames(r.logs) =
                    IF c = "SRModel"
                    THEN <<"l_dis", "l_gen", "l_l1", "l_content", "l_style">>
                    ELSE <<"l_dis", "l_gen", "l_fm">>
              /\ r.logs[1][2] = r.dis_loss.value
              /\ LogSum(r.logs, 2) = r.gen_loss.value
              /\ c = "SRModel" =>
                    /\ r.logs[3][2] = L1_LOSS_WEIGHT * nets[c][1].l1
                    /\ r.logs[4][2] = CONTENT_LOSS_WEIGHT * nets[c][1].content

\* process has returned a log on each kind of controller, every entry non-zero
\* and the SR entries all different
C8_Witness ==
    /\ active = "SRModel" /\ ret["SRModel"] # <<>>
    /\ LET logs == ret["SRModel"][1].logs
       IN  /\ \A i \in 1..Len(logs) : logs[i][2] > 0
           /\ \A i, j \in 1..Len(logs) : i # j => logs[i][2] # logs[j][2]

\* the sum of the L1 distances over the feature layers
RECURSIVE FeatureDistance(_, _, _)
FeatureDistance(a, b, i) ==
    IF i > Len(a) THEN 0 ELSE Abs(a[i] - b[i]) + FeatureDistance(a, b, i + 1)

\* C9: the generator loss process returns is the weighted sum of its terms:
\* ADV_LOSS_WEIGHT1 * adv + FM_LOSS_WEIGHT * (sum of the feature-layer L1
\* distances) for Edge and Gradient, ADV_LOSS_WEIGHT2 * adv + L1_LOSS_WEIGHT *
\* l1 + CONTENT_LOSS_WEIGHT * content + STYLE_LOSS_WEIGHT * style for SR; it
\* equals the sum of the logged entries other than l_dis; with the weights 0.1
\* and 10, adv = 2.0 and a feature distance of 0.05 give 0.7.
C9_WeightedSum ==
    \A c \in Controllers :
       ret[c] # <<>> =>
          LET r == ret[c][1]
              n == nets[c][1]
              d == FeatureDistance(n.fake_feat, n.real_feat, 1)
          IN  /\ c = "SRModel" =>
                    r.gen_loss.value =
                       ADV_LOSS_WEIGHT2 * n.gen_fake + L1_LOSS_WEIGHT * n.l1
                       + CONTENT_LOSS_WEIGHT * n.content
                       + STYLE_LOSS_WEIGHT * n.style
              /\ c # "SRModel" =>
                    /\ r.gen_loss.value =
                          ADV_LOSS_WEIGHT1 * n.gen_fake + FM_LOSS_WEIGHT * d
                    /\ n.gen_fake = 200 /\ d = 5 => r.gen_loss.value = 700
              /\ r.gen_loss.value = LogSum(r.logs, 2)

\* the example: an Edge step with adv = 2.0 and feature distance 0.05
C9_Witness ==
    /\ ret["EdgeModel"] # <<>>
    /\ nets["EdgeModel"][1].gen_fake = 200
    /\ FeatureDistance(nets["EdgeModel"][1].fake_feat,
                       nets["EdgeModel"][1].real_feat, 1) = 5
    /\ ret["EdgeModel"][1].gen_loss.value = 700

\* C10: the upsampled image of SRModel.forward has 3 channels and size
\* sH x sW; it is 0 wherever the row or the column is not a multiple of s, and
\* at row s*i, column s*j of channel ch it holds pixel (i, j) of channel ch of
\* the low-resolution image: every channel is determined by the same input
\* channel, and taking every s-th pixel gives back the low-resolution image.
C10_ZeroInsertion ==
    fwd["SRModel"] # <<>> =>
       LET lr == fwd["SRModel"][1].lr_images
           up == fwd["SRModel"][1].hr_images
           s  == SCALE
       IN  /\ up.C = RGB /\ up.H = s * lr.H /\ up.W = s * lr.W
           /\ DOMAIN up.px = Idx(RGB, s * lr.H, s * lr.W)
           /\ \A p \in DOMAIN up.px :
                 p[2] % s # 0 \/ p[3] % s # 0 => up.px[p] = 0
           /\ \A q \in DOMAIN lr.px :
                 up.px[<<q[1], s * q[2], s * q[3]>>] = lr.px[q]

\* a 2 x 2 image with one pixel of the second channel unlike the others has
\* been upsampled by 4
C10_Witness ==
    /\ fwd["SRModel"] # <<>> /\ SCALE = 4
    /\ LET lr == fwd["SRModel"][1].lr_images
       IN  /\ lr.H = 2 /\ lr.W = 2
           /\ lr.px[<<1, 1, 1>>] = 2 /\ lr.px[<<0, 1, 1>>] = 1
           /\ fwd["SRModel"][1].hr_images.px[<<1, 4, 4>>] = 2

\* a file save has written
IsGenCheckpoint(f) == DOMAIN f = {"exists", "iteration", "generator"}

IsDisCheckpoint(f) == DOMAIN f = {"exists", "discriminator"}

\* a file that exists and is no checkpoint
IsMalformedGen(f) == f.exists /\ ~IsGenCheckpoint(f)

IsMalformedDis(f) == f.exists /\ ~IsDisCheckpoint(f)

\* C11: load changes the discriminator parameters only in training mode
\* (MODE = 1) and only when the discriminator checkpoint file exists, and then
\* sets them to the file's; in MODE 2 and 3 it never changes them, whatever
\* files exist; the generator parameters and the iteration counter are set
\* from the generator checkpoint in every mode whenever that file exists.
\* (Checkpoint files are files save has written.)
C11_DiscriminatorOnlyInTraining ==
    [][\A c \in Controllers :
          Load(c) =>
             /\ disP'[c] # disP[c] => MODE = 1 /\ disFile[c].exists
             /\ MODE \in {2, 3} => disP'[c] = disP[c]
             /\ /\ MODE = 1 /\ IsDisCheckpoint(disFile[c])
                /\ ~IsMalformedGen(genFile[c])
                => disP'[c] = disFile[c].discriminator
             /\ IsGenCheckpoint(genFile[c]) =>
                   /\ genP'[c] = genFile[c].generator
                   /\ iteration'[c] = genFile[c].iteration]_vars

\* a test program has loaded: generator and counter are the generator
\* file's, the discriminator is as constructed although its file holds other
\* parameters
C11_Witness ==
    \E c \in Controllers :
       /\ MODE = 2 /\ raised[c] = ""
       /\ IsGenCheckpoint(genFile[c]) /\ IsDisCheckpoint(disFile[c])
       /\ genFile[c].generator = 2 /\ genFile[c].iteration = 1
       /\ disFile[c].discriminator = 2
       /\ genP[c] = 2 /\ iteration[c] = 1 /\ disP[c] = 0

\* C12 as stated: a checkpoint file that exists and cannot be deserialized or
\* lacks its entries does not make load raise, and load leaves the state the
\* file would have given (counter and generator parameters for the generator
\* file, discriminator parameters for the discriminator file) as it was.
C12_MalformedNonFatal ==
    [][\A c \in Controllers :
          Load(c) =>
             /\ IsMalformedGen(genFile[c]) =>
                   /\ raised'[c] = ""
                   /\ iteration'[c] = iteration[c] /\ genP'[c] = genP[c]
             /\ IsMalformedDis(disFile[c]) =>
                   /\ raised'[c] = ""
                   /\ disP'[c] = disP[c]]_vars

\* C16: load with neither file present raises nothing and leaves the
\* iteration counter and both networks' parameters unchanged; with the
\* generator checkpoint alone it sets generator parameters and counter from
\* it and leaves the discriminator; with the discriminator checkpoint alone
\* it sets, in training mode, the discriminator parameters from it and leaves
\* generator and counter.
C16_MissingFilesNoOp ==
    [][\A c \in Controllers :
          Load(c) =>
             /\ ~genFile[c].exists /\ ~disFile[c].exists =>
                   /\ raised'[c] = ""
                   /\ iteration'[c] = iteration[c]
                   /\ genP'[c] = genP[c] /\ disP'[c] = disP[c]
             /\ IsGenCheckpoint(genFile[c]) /\ ~disFile[c].exists =>
                   /\ raised'[c] = ""
                   /\ iteration'[c] = genFile[c].iteration
                   /\ genP'[c] = genFile[c].generator
                   /\ disP'[c] = disP[c]
             /\ ~genFile[c].exists /\ IsDisCheckpoint(disFile[c]) =>
                   /\ raised'[c] = ""
                   /\ iteration'[c] = iteration[c] /\ genP'[c] = genP[c]
                   /\ disP'[c] = IF MODE = 1 THEN disFile[c].discriminator
                                 ELSE disP[c]]_vars

\* a training program has loaded with the discriminator checkpoint alone
C16_Witness ==
    \E c \in Controllers :
       /\ MODE = 1 /\ raised[c] = ""
       /\ ~genFile[c].exists /\ IsDisCheckpoint(disFile[c])
       /\ disFile[c].discriminator = 2 /\ disP[c] = 2
       /\ genP[c] = 0 /\ iteration[c] = 0

\* C13 as stated: a process call made while an earlier process call has had
\* no matching backward is rejected: it leaves the iteration counter, the
\* parameters and the gradient accumulators unchanged.
C13_RejectsStepInFlight ==
    [][\A c \in Controllers :
          IsProcess(c) /\ ret[c] # <<>> =>
             /\ iteration'[c] = iteration[c]
             /\ genP'[c] = genP[c] /\ disP'[c] = disP[c]
             /\ genGrad'[c] = genGrad[c] /\ disGrad'[c] = disGrad[c]]_vars

\* C15: in Edge and Gradient the feature-matching term, as logged under
\* "l_fm" and as added to the generator loss, is zero exactly if on every
\* discriminator feature layer the activations of the fake pair equal those
\* of the real pair.
C15_FeatureMatchingZero ==
    \A c \in Controllers \ {"SRModel"} :
       ret[c] # <<>> =>
          LET r == ret[c][1]
              n == nets[c][1]
          IN  /\ r.logs[3][1] = "l_fm"
              /\ r.gen_loss.value = r.logs[2][2] + r.logs[3][2]
              /\ r.logs[3][2] = 0 <=>
                    \A i \in 1..NLayers : n.fake_feat[i] = n.real_feat[i]

\* an Edge step whose fake and real activations are equal and not zero, and
\* whose feature-matching term is zero
C15_Witness ==
    /\ ret["EdgeModel"] # <<>>
    /\ nets["EdgeModel"][1].fake_feat = nets["EdgeModel"][1].real_feat
    /\ nets["EdgeModel"][1].real_feat[1] = 5
    /\ ret["EdgeModel"][1].logs[3] = <<"l_fm", 0>>

\* C17: when the discriminator optimizer is about to step, the discriminator
\* parameters hold gradients of the discriminator loss of the process call
\* being backed up and nothing else (in particular no generator-loss gradient
\* of an earlier step); when the generator optimizer is about to step, the
\* generator parameters hold gradients of that call's generator loss and
\* nothing else.
C17_NoStaleGradients ==
    \A c \in Controllers :
       /\ pc[c] = 1 =>
             \A g \in disGrad[c] :
                g.loss = "dis_loss" /\ g.step = ret[c][1].step
       /\ pc[c] = 3 =>
             \A g \in genGrad[c] :
                g.loss = "gen_loss" /\ g.step = ret[c][1].step

\* the discriminator optimizer is about to take its second step: the first
\* backward call left a generator-loss gradient on the discriminator
C17_Witness ==
    \E c \in Controllers :
       /\ pc[c] = 1 /\ disOpt[c] = 1 /\ genOpt[c] = 1
       /\ ret[c][1].step = 2
       /\ \E g \in disGrad[c] : g.step = 2

\* C18: the discriminator loss process returns is half the sum of the
\* adversarial loss on the real input and the adversarial loss on the
\* detached fake input (it reaches no generator parameter), and the entry
\* logged under "l_dis" is this value.
C18_DiscriminatorLoss ==
    \A c \in Controllers :
       ret[c] # <<>> =>
          LET r == ret[c][1]
              n == nets[c][1]
          IN  /\ 2 * r.dis_loss.value = n.dis_real + n.dis_fake
              /\ r.logs[1] = <<"l_dis", r.dis_loss.value>>
              /\ \A e \in r.dis_loss.graph : e[1] = "dis"

\* a Gradient step with real loss 1.0 and fake loss 2.0: l_dis is 1.5
C18_Witness ==
    /\ ret["GradientModel"] # <<>>
    /\ nets["GradientModel"][1].dis_real = 100
    /\ nets["GradientModel"][1].dis_fake = 200
    /\ ret["GradientModel"][1].logs[1] = <<"l_dis", 150>>

\* C19: save writes the iteration counter and the generator parameters to one
\* file and the discriminator parameters to the other, and no optimizer
\* state; load leaves both optimizers' states as they were.  (A freshly
\* constructed controller therefore has fresh optimizers after load.)
C19_OptimizerOutsideCheckpoint ==
    [][\A c \in Controllers :
          /\ Save(c) =>
                /\ DOMAIN genFile'[c] = {"exists", "iteration", "generator"}
                /\ DOMAIN disFile'[c] = {"exists", "discriminator"}
          /\ Load(c) =>
                genOpt'[c] = genOpt[c] /\ disOpt'[c] = disOpt[c]]_vars

\* a fresh controller has loaded what a controller saved after one full
\* step: parameters and counter are the saved ones, the optimizers fresh
C19_Witness ==
    \E c \in Controllers :
       /\ genOpt[c] = 0 /\ disOpt[c] = 0
       /\ genFile[c] = [exists |-> TRUE, iteration |-> 1, generator |-> 1]
       /\ disFile[c] = [exists |-> TRUE, discriminator |-> 1]
       /\ iteration[c] = 1 /\ genP[c] = 1 /\ disP[c] = 1

\* C14: reading an option whose key the configuration file does not hold
\* gives None, not 0 and not the value DEFAULT_CONFIG lists; reading an
\* option the file sets to a value other than null, 0 included, gives that
\* value.  (PATH is no option of the file: the constructor sets it.)
C14_ConfigLookup ==
    attr # <<>> /\ attr[1] # "PATH" =>
       LET key  == attr[1]
           v    == attr[2]
           file == yaml.items
       IN  /\ key \notin DOMAIN file =>
                 /\ v = None /\ v # PyInt(0)
                 /\ v # Get(DEFAULT_CONFIG, key)
           /\ key \in DOMAIN file /\ file[key] # None => v = file[key]

\* SCALE has been read from a file that sets DEBUG to 0 and MODE to 2 and
\* does not hold SCALE
C14_Witness ==
    /\ yaml.type = "dict" /\ DOMAIN yaml.items = {"MODE", "DEBUG"}
    /\ yaml.items["DEBUG"] = PyInt(0) /\ yaml.items["MODE"] = PyInt(2)
    /\ attr = <<"SCALE", None>>

\* C20: over forward, process, backward, save and load calls the generator
\* parameters of a controller change only at the gen_optimizer.step() of its
\* backward or at its load, the discriminator parameters only at the
\* dis_optimizer.step() of its backward or at its load; and a call on one
\* controller changes no other controller's parameters, iteration counter
\* or checkpoint files.
C20_ParameterOwnership ==
    [][\A c \in Controllers :
          LET constructs == \E m \in Modes : Restart(c, m)
              steps(opt) == /\ BackwardStep(c)
                            /\ BackwardOf(c)[pc[c] + 1] = opt
          IN  /\ genP'[c] # genP[c] /\ ~constructs =>
                    steps("gen_optimizer.step") \/ Load(c)
              /\ disP'[c] # disP[c] /\ ~constructs =>
                    steps("dis_optimizer.step") \/ Load(c)
              /\ c # active =>
                    /\ genP'[c] = genP[c] /\ disP'[c] = disP[c]
                    /\ iteration'[c] = iteration[c]
                    /\ genFile'[c] = genFile[c] /\ disFile'[c] = disFile[c]]_vars

\* the program has trained and saved one controller and gone on with
\* another, whose discriminator optimizer has stepped and whose generator
\* optimizer has not yet: its discriminator has new parameters; its
\* generator, and the networks, counter and files of the first, have theirs
C20_Witness ==
    \E c \in Controllers, d \in Controllers :
       /\ c = active /\ d # c
       /\ pc[c] = 2 /\ disP[c] = 1 /\ genP[c] = 0 /\ iteration[c] = 1
       /\ genP[d] = 1 /\ disP[d] = 1 /\ iteration[d] = 1
       /\ genFile[d].exists /\ genFile[d].generator = 1
       /\ disFile[d].exists /\ ~genFile[c].exists

====
